---------------------------- MODULE Spec2Model ----------------------------
(***************************************************************************)
(* Model of the document-to-transaction pipeline of src/ai_parser.py:      *)
(* response sanitizer, provider selection, CSV heuristics with AI          *)
(* fallback, PDF routing, chat context assembly and currency conversion.   *)
(*                                                                         *)
(* ImportModule is the module body (the credential check of lines 35-43);  *)
(* it leaves pc = "idle", or "failed" when the import raised.              *)
(* Every entry point is one action taken from pc = "idle"; it runs the     *)
(* whole function, records its argument, its result and what it did on the *)
(* way (provider calls, fallback invocations, FX fetches) and leaves       *)
(* pc = "done".  Return goes back to "idle" and keeps only the process-    *)
(* wide state (_gemini_model, _fx_cache).  SpecThreads runs                *)
(* get_exchange_rate in several threads, one line of the function a step.  *)
(*                                                                         *)
(* SpecUpload and SpecChat are the upload page and the chat page of        *)
(* src/app.py: one action per widget event, each running the page script   *)
(* from top to bottom over st.session_state.                               *)
(***************************************************************************)
EXTENDS Integers, Sequences, FiniteSets, TLC

VARIABLES
    GROQ_API_KEY,      \* GROQ_API_KEY is configured
    GEMINI_API_KEY,    \* GEMINI_API_KEY is configured
    _gemini_model,  \* _gemini_model is set (the cached vision model)
    _fx_cache,      \* _fx_cache: key -> rate; a key never stored is not in its domain
    pc,           \* "import" | "failed" | "idle" | "done"
    entry,        \* the entry point of the call in progress / just finished
    arg,          \* its argument(s)
    result,       \* [kind |-> "ok", val |-> ...] or [kind |-> "raised", err |-> ...]
    aiCalls,      \* invocations of _parse_csv_with_ai during the call
    requests,     \* the provider requests sent during the call, in order
    fxFetches,    \* live FX fetches during the call
    fxReads,      \* lookups in _fx_cache during the call
    fxLookups,    \* calls of get_exchange_rate during the call
    rateUsed,     \* the rate get_exchange_rate returned to convert_transactions_to_sek
    fxStoredFor,  \* ordered pair (from, to) -> the rate a call for that pair stored
    threads,      \* per thread: where its get_exchange_rate call stands, and its locals
    uploaded,         \* app.py: the file in the uploader, or PyNone
    selected_currency,  \* app.py: source_currency, the selectbox of line 351
    session_state,    \* app.py: st.session_state (lines 119-124)
    rendered,         \* app.py: what the last run of the upload page drew
    db,               \* the rows of the tables documents and transactions
    parsedFrom,       \* history: the file session_state.parsed_result was parsed from
    savedFrom,        \* history: per row of documents, the result it was saved from
    savesOfResult     \* history: commits of the transactions of the last analysis

\* the state of app.py
appVars == <<uploaded, selected_currency, session_state, rendered, db, parsedFrom, savedFrom,
             savesOfResult>>

vars == <<GROQ_API_KEY, GEMINI_API_KEY, _gemini_model, _fx_cache, pc, entry, arg, result,
          aiCalls, requests, fxFetches, fxReads, fxLookups, rateUsed, fxStoredFor,
          threads, appVars>>

None == "none"

\* no call in progress: no argument, no result
NoArg    == [none |-> TRUE]
NoResult == [kind |-> "none"]

Ok(v)     == [kind |-> "ok", val |-> v]
Raised(e) == [kind |-> "raised", err |-> e]

----------------------------------------------------------------------------
(* Text.  A response text is a sequence of tokens: BT is one backtick,      *)
(* WS is whitespace, "json" is the four lowercase letters j-s-o-n,         *)
(* "JSON" is another language tag, "txt" is prose, "V1".."V4" are complete *)
(* valid JSON documents (no backtick inside), "X" is malformed JSON.       *)

BT == "tick"
WS == "ws"

\* the fence marker (three backticks) of line 121
FenceLen == 3

Fence == [i \in 1..FenceLen |-> BT]

ValidDocs == {"V1", "V2", "V3", "V4"}

\* a JSON / Python value where an amount is expected: a number in
\* hundredths, NaN, null (None), or no entry under the key at all
Num(v)  == [t |-> "num", v |-> v]
NaN     == [t |-> "nan", v |-> 0]
Null    == [t |-> "null", v |-> 0]
Missing == [t |-> "missing", v |-> 0]

\* what the valid documents hold once parsed: V1 is the receipt without
\* transactions, V2 a statement in USD with one transaction, V3 a receipt
\* whose one transaction has a negative amount and no "type" entry, V4 an
\* object without a "transactions" entry.  json.loads returns what the text
\* holds, whether or not it follows EXTRACTION_PROMPT.
DocOf(t) ==
    CASE t = "V1" ->
            [json |-> t, doc_type |-> "receipt", currency |-> "SEK",
             summary |-> [text |-> "x", n |-> 0], transactions |-> <<>>]
      [] t = "V2" ->
            [json |-> t, doc_type |-> "bank_statement", currency |-> "USD",
             summary |-> [text |-> "y", n |-> 0],
             transactions |-> <<[date |-> "2024-01-01", description |-> "coffee",
                                 amount |-> Num(450), category |-> "Food",
                                 type |-> "expense"]>>]
      [] t = "V3" ->
            [json |-> t, doc_type |-> "receipt", currency |-> "SEK",
             summary |-> [text |-> "z", n |-> 0],
             transactions |-> <<[date |-> "2024-01-01", description |-> "refund",
                                 amount |-> Num(-1250), category |-> "Other"]>>]
      [] OTHER ->
            [json |-> t, doc_type |-> "receipt", currency |-> "SEK",
             summary |-> [text |-> "w", n |-> 0]]

\* index of the first occurrence of pat in s, 0 when there is none
FindFirst(s, pat) ==
    LET hits == {i \in 1..(Len(s) - Len(pat) + 1) : SubSeq(s, i, i + Len(pat) - 1) = pat}
    IN  IF hits = {} THEN 0 ELSE CHOOSE i \in hits : \A j \in hits : i <= j

\* pat in s
Contains(s, pat) == FindFirst(s, pat) # 0

\* str.strip(): drop leading and trailing whitespace
RECURSIVE LStrip(_)
LStrip(s) == IF s # <<>> /\ Head(s) = WS THEN LStrip(Tail(s)) ELSE s

RECURSIVE RStripTok(_, _)
RStripTok(s, t) ==
    IF s # <<>> /\ s[Len(s)] = t THEN RStripTok(SubSeq(s, 1, Len(s) - 1), t) ELSE s

Strip(s) == RStripTok(LStrip(s), WS)

\* raw.split(fence)[1]: the text between the first marker and the next one
\* (or the end of the text when there is no second marker)
SplitSecond(s) ==
    LET i    == FindFirst(s, Fence)
        rest == SubSeq(s, i + FenceLen, Len(s))
        j    == FindFirst(rest, Fence)
    IN  IF j = 0 THEN rest ELSE SubSeq(rest, 1, j - 1)

\* raw.startswith("json")
StartsWithJson(s) == s # <<>> /\ Head(s) = "json"

\* json.loads: surrounding whitespace is accepted, anything but exactly one
\* valid document raises JSONDecodeError
JsonLoads(s) ==
    LET t == Strip(s)
    IN  IF Len(t) = 1 /\ t[1] \in ValidDocs THEN Ok(DocOf(t[1])) ELSE Raised("JSONDecodeError")

\* _clean_json taking the text after the first marker up to the end
_clean_json_after_fence(raw) ==
    LET r0 == Strip(raw)
        i  == FindFirst(r0, Fence)
        r1 == IF Contains(r0, Fence)
              THEN SubSeq(r0, i + FenceLen, Len(r0))
              ELSE r0
    IN  JsonLoads(Strip(RStripTok(Strip(r1), BT)))

\* _clean_json (lines 119-126)
_clean_json(raw) ==
    LET r0 == Strip(raw)
        r1 == IF Contains(r0, Fence)
              THEN LET piece == SplitSecond(r0)
                   IN  IF StartsWithJson(piece) THEN Tail(piece) ELSE piece
              ELSE r0
        r2 == Strip(RStripTok(Strip(r1), BT))
    IN  JsonLoads(r2)

----------------------------------------------------------------------------
(* Providers.  What the outside world does during one call is drawn with   *)
(* the call: env.lib says whether google.generativeai imports, env.init    *)
(* whether one of the three model names constructs, env.out[k] is the      *)
(* outcome of the k-th provider network call of the entry point: an HTTP   *)
(* level failure, or the response text.                                    *)

HttpError == <<"http_error">>

RawFencedJson == Fence \o <<"json", WS, "V1", WS>> \o Fence
RawProse      == <<"txt">>
RawSignedJson == <<"V3">>
RawNoListJson == <<"V4">>

Outcomes == {HttpError, RawFencedJson, RawProse, RawSignedJson, RawNoListJson}

\* an entry point makes at most this many provider calls (lines 177 and 198)
MaxProviderCalls == 2

Envs == [lib : BOOLEAN, init : BOOLEAN, out : [1..MaxProviderCalls -> Outcomes]]

\* the environments of an entry point that never makes a second provider call
EnvsOneCall == {e \in Envs : \A k \in 1..MaxProviderCalls : e.out[k] = e.out[1]}

\* the result of running a piece of code: its value or exception, the
\* provider requests it sent, and _gemini_model afterwards
Ran(res, reqs, gm) == [res |-> res, reqs |-> reqs, gm |-> gm]

\* _groq_text (lines 53-62): one POST; raise_for_status or a malformed body raises
_groq_text(prompt, out) ==
    IF out = HttpError THEN Raised("ProviderRequestError") ELSE Ok(out)

\* model.generate_content(...).text (lines 135, 145, 206, 275): one request
GeminiGenerate(prompt, out) ==
    IF out = HttpError THEN Raised("ProviderRequestError") ELSE Ok(out)

\* _get_gemini (lines 70-88)
_get_gemini(gm, env) ==
    IF gm THEN [res |-> Ok("model"), gm |-> gm]
    ELSE IF ~GEMINI_API_KEY THEN [res |-> Raised("RuntimeError"), gm |-> gm]
    ELSE IF ~env.lib THEN [res |-> Raised("ImportError"), gm |-> gm]
    ELSE IF env.init THEN [res |-> Ok("model"), gm |-> TRUE]
    ELSE [res |-> Raised("RuntimeError"), gm |-> gm]

\* the sanitizer applied to a provider's answer
Sanitized(r) == IF r.kind = "raised" THEN r ELSE _clean_json(r.val)

Min(a, b) == IF a <= b THEN a ELSE b

\* text[:4000] of line 141 and csv_content[:3000] of line 202
TextLimit == 4000
CsvLimit  == 3000

ExtractPrompt(kind, src, limit) == [kind |-> kind, src |-> src, limit |-> limit]

\* lines 142-145 and 203-206 preferring Gemini: Groq only without a Gemini key
TextCompletionGeminiFirst(prompt, gm, env, out) ==
    IF ~GEMINI_API_KEY
    THEN Ran(Sanitized(_groq_text(prompt, out)),
             <<[provider |-> "groq", prompt |-> prompt]>>, gm)
    ELSE LET g == _get_gemini(gm, env)
         IN  IF g.res.kind = "raised" THEN Ran(g.res, <<>>, g.gm)
             ELSE Ran(Sanitized(GeminiGenerate(prompt, out)),
                      <<[provider |-> "gemini", prompt |-> prompt]>>, g.gm)

\* the text completion of lines 142-145 and 203-206: Groq when its key is
\* configured, else Gemini; `out` is the outcome of the provider call
TextCompletion(prompt, gm, env, out) ==
    IF GROQ_API_KEY
    THEN Ran(Sanitized(_groq_text(prompt, out)),
             <<[provider |-> "groq", prompt |-> prompt]>>, gm)
    ELSE LET g == _get_gemini(gm, env)
         IN  IF g.res.kind = "raised" THEN Ran(g.res, <<>>, g.gm)
             ELSE Ran(Sanitized(GeminiGenerate(prompt, out)),
                      <<[provider |-> "gemini", prompt |-> prompt]>>, g.gm)

\* parse_document (lines 132-136): Gemini vision only
parse_document(image, gm, env, out) ==
    LET g == _get_gemini(gm, env)
        prompt == ExtractPrompt("image", image, 0)
    IN  IF g.res.kind = "raised" THEN Ran(g.res, <<>>, g.gm)
        ELSE Ran(Sanitized(GeminiGenerate(prompt, out)),
                 <<[provider |-> "gemini", prompt |-> prompt]>>, g.gm)

\* parse_text_document (lines 139-145)
parse_text_document(text, gm, env, out) ==
    TextCompletion(ExtractPrompt("text", text, TextLimit), gm, env, out)

\* _parse_csv_with_ai (lines 201-206)
_parse_csv_with_ai(csv_content, gm, env, out) ==
    TextCompletion(ExtractPrompt("csv", csv_content, CsvLimit), gm, env, out)

----------------------------------------------------------------------------
(* CSV heuristics.  Column names and type cells are sequences of           *)
(* characters (WS is the blank), so that str.strip, str.lower and the      *)
(* substring tests of lines 169-174 and 184 are computed as the code       *)
(* computes them.                                                          *)

Uppers == <<"A","B","C","D","E","F","G","H","I","J","K","L","M",
            "N","O","P","Q","R","S","T","U","V","W","X","Y","Z">>
Lowers == <<"a","b","c","d","e","f","g","h","i","j","k","l","m",
            "n","o","p","q","r","s","t","u","v","w","x","y","z">>

LowerChar(c) ==
    IF \E i \in 1..Len(Uppers) : Uppers[i] = c
    THEN Lowers[CHOOSE i \in 1..Len(Uppers) : Uppers[i] = c]
    ELSE c

\* str.lower()
Lower(s) == [i \in 1..Len(s) |-> LowerChar(s[i])]

\* the keyword fragments of line 170
DateKeys == {<<"d", "a", "t", "e">>, <<"d", "a", "t", "u", "m">>, <<"f", "e", "c", "h", "a">>}

\* the keyword fragments of line 171
DescKeys == {<<"d", "e", "s", "c">>,
    <<"d", "e", "t", "a", "i", "l">>,
    <<"m", "e", "r", "c", "h", "a", "n", "t">>,
    <<"p", "a", "y", "e", "e">>,
    <<"b", "e", "s", "k", "r", "i", "v", "n", "i", "n", "g">>}

\* the keyword fragments of line 172
AmountKeys == {<<"a", "m", "o", "u", "n", "t">>,
    <<"v", "a", "l", "u", "e">>,
    <<"s", "u", "m">>,
    <<"b", "e", "l", "o", "p", "p">>,
    <<"c", "a", "n", "t", "i", "d", "a", "d">>}

\* the keyword fragments of line 173
TypeKeys == {<<"t", "y", "p", "e">>, <<"t", "y", "p">>}

\* the keyword fragments of line 174
CatKeys == {<<"c", "a", "t", "e", "g", "o", "r", "y">>, <<"k", "a", "t", "e", "g", "o", "r", "i">>}

\* the keyword fragments of line 184
ExpenseKeys == {<<"e", "x", "p", "e", "n", "s", "e">>, <<"d", "e", "b", "i", "t">>, <<"d", "e", "b", "e", "t">>}

\* header names as they stand in the file
NmDate      == <<"D", "a", "t", "e">>
NmAmount    == <<WS, "A", "m", "o", "u", "n", "t">>
NmAmountB   == <<"a", "m", "o", "u", "n", "t", WS>>
NmBelopp    == <<"b", "e", "l", "o", "p", "p">>
NmTyp       == <<"T", "y", "p">>
NmDesc      == <<"D", "e", "s", "c", "r", "i", "p", "t", "i", "o", "n">>
NmSummary   == <<"S", "u", "m", "m", "a", "r", "y">>
NmValueDate == <<"V", "a", "l", "u", "e", "_", "D", "a", "t", "e">>
NmCategory  == <<"C", "a", "t", "e", "g", "o", "r", "y">>
NmTotal     == <<"T", "o", "t", "a", "l">>
NmWhen      == <<"W", "h", "e", "n">>

\* a column of the table: its header name and what its cells hold
\* ("amounts": the row's amount-like cell, "types": its type-like cell,
\* "text": free text)
Col(name, content) == [name |-> name, content |-> content]

Headers == {
    <<Col(NmDate, "text"), Col(NmAmount, "amounts")>>,
    <<Col(NmDate, "text"), Col(NmDesc, "text"), Col(NmBelopp, "amounts"),
      Col(NmTyp, "types"), Col(NmCategory, "text")>>,
    <<Col(NmAmount, "amounts"), Col(NmTyp, "types"), Col(NmDate, "text")>>,
    <<Col(NmValueDate, "text")>>,
    <<Col(NmDate, "text"), Col(NmSummary, "text"), Col(NmTotal, "amounts")>>,
    <<Col(NmDate, "text"), Col(NmAmount, "amounts"), Col(NmAmountB, "amounts")>>,
    <<Col(NmDate, "text"), Col(NmTotal, "amounts")>>,
    <<Col(NmWhen, "text"), Col(NmAmount, "amounts")>>,
    <<Col(NmWhen, "text"), Col(NmTotal, "amounts"), Col(NmTyp, "types")>>
}

\* a cell: k is what the file holds there, v its value in hundredths when it
\* is numeric, s its characters when it is a string
Cell(k, v, s) == [k |-> k, v |-> v, s |-> s]

CellNeg50   == Cell("num", -5000, <<>>)    \* -50
CellPos100  == Cell("num", 10000, <<>>)    \* 100
CellComma   == Cell("comma", 120050, <<>>) \* 1 200,50
CellEmpty   == Cell("empty", 0, <<>>)      \* nothing: pandas reads NaN
CellNotNum  == Cell("text", 0, <<"n", "/", "a">>)
CellDebit   == Cell("str", 0, <<"D", "e", "b", "i", "t">>)
CellCredit  == Cell("str", 0, <<"c", "r", "e", "d", "i", "t">>)

\* a row: its amount-like cell and its type-like cell
Row(val, kind) == [val |-> val, kind |-> kind]

Rows == {
    Row(CellNeg50, CellDebit),
    Row(CellPos100, CellCredit),
    Row(CellPos100, CellDebit),
    Row(CellComma, CellCredit),
    Row(CellEmpty, CellCredit),
    Row(CellNotNum, CellDebit)
}

\* the rows of the tables drawn
MaxRows == 2

RECURSIVE SeqsUpTo(_, _)
SeqsUpTo(S, n) ==
    IF n = 0 THEN {<<>>}
    ELSE LET shorter == SeqsUpTo(S, n - 1)
         IN  shorter \cup {Append(q, x) : q \in {r \in shorter : Len(r) = n - 1}, x \in S}

\* parses: pandas.read_csv accepts the text (an empty or ragged file raises)
CsvInputs ==
    {[parses |-> TRUE, header |-> h, rows |-> r] : h \in Headers, r \in SeqsUpTo(Rows, MaxRows)}
    \cup {[parses |-> FALSE, header |-> <<>>, rows |-> <<>>]}

\* df.columns.str.strip().str.lower() (line 169)
NormCols(header) == [j \in 1..Len(header) |-> Lower(Strip(header[j].name))]

\* next((c for c in df.columns if any(k in c for k in keys)), None);
\* <<>> stands for None (a name that matched a keyword is never empty)
FirstCol(cols, keys) ==
    LET hits == {j \in 1..Len(cols) : \E k \in keys : Contains(cols[j], k)}
    IN  IF hits = {} THEN <<>>
        ELSE cols[CHOOSE j \in hits : \A i \in hits : j <= i]

Digits == <<"1", "2", "3", "4", "5", "6", "7", "8", "9">>

\* the cell of row i in column j (a text cell is named after its place)
CellAt(csv, i, j) ==
    LET c == csv.header[j].content
    IN  IF c = "amounts" THEN csv.rows[i].val
        ELSE IF c = "types" THEN csv.rows[i].kind
        ELSE Cell("str", 0, <<"r", Digits[i], "c", Digits[j]>>)

RECURSIVE JoinCells(_, _, _)
JoinCells(csv, i, js) ==
    IF js = {} THEN <<>>
    ELSE LET j == CHOOSE x \in js : \A y \in js : x <= y
         IN  CellAt(csv, i, j).s \o <<WS>> \o JoinCells(csv, i, js \ {j})

\* row[name]: the cell, or a Series of cells when the normalised name stands
\* over several columns
RowGet(csv, cols, i, name) ==
    LET js == {j \in 1..Len(cols) : cols[j] = name}
    IN  IF Cardinality(js) = 1 THEN CellAt(csv, i, CHOOSE j \in js : TRUE)
        ELSE Cell("series", 0, JoinCells(csv, i, js))

\* str(cell): NaN prints as nan
StrOf(cell) == IF cell.k = "empty" THEN <<"n","a","n">> ELSE cell.s

\* float(str(x).replace(",", ".").replace(" ", "")) (line 182)
ParseAmount(cell) ==
    IF cell.k \in {"num", "comma"} THEN Ok(Num(cell.v))
    ELSE IF cell.k = "empty" THEN Ok(NaN)
    ELSE Raised("ValueError")

IsNeg(x) == x.t = "num" /\ x.v < 0
Abs(x)   == IF x.t = "num" THEN Num(IF x.v < 0 THEN -x.v ELSE x.v) ELSE x

\* lines 169-174: the normalised names and the column found for each role
Columns(header) ==
    LET cols == NormCols(header)
    IN  [cols       |-> cols,
         date_col   |-> FirstCol(cols, DateKeys),
         desc_col   |-> FirstCol(cols, DescKeys),
         amount_col |-> FirstCol(cols, AmountKeys),
         type_col   |-> FirstCol(cols, TypeKeys),
         cat_col    |-> FirstCol(cols, CatKeys)]

\* Columns, computed once for every header drawn
Detected == [h \in Headers |-> Columns(h)]

\* the loop body with the type read off the sign of the amount whether or not
\* a type column was found
RowTransactionBySign(csv, d, i) ==
    LET amount == ParseAmount(RowGet(csv, d.cols, i, d.amount_col))
    IN  IF amount.kind = "raised" THEN <<>>
        ELSE <<[date        |-> StrOf(RowGet(csv, d.cols, i, d.date_col)),
                description |-> IF d.desc_col # <<>>
                                THEN StrOf(RowGet(csv, d.cols, i, d.desc_col))
                                ELSE <<"Transaction">>,
                amount      |-> Abs(amount.val),
                category    |-> IF d.cat_col # <<>>
                                THEN StrOf(RowGet(csv, d.cols, i, d.cat_col))
                                ELSE <<"Other">>,
                type        |-> IF IsNeg(amount.val) THEN "expense" ELSE "income"]>>

\* one pass of the loop body of lines 181-195: the transaction of row i, or
\* <<>> when the row raised and was skipped
RowTransaction(csv, d, i) ==
    LET amount == ParseAmount(RowGet(csv, d.cols, i, d.amount_col))
        tx_type ==
            IF d.type_col # <<>>
            THEN IF \E k \in ExpenseKeys :
                        Contains(Lower(StrOf(RowGet(csv, d.cols, i, d.type_col))), k)
                 THEN "expense" ELSE "income"
            ELSE IF IsNeg(amount.val) THEN "expense" ELSE "income"
    IN  IF amount.kind = "raised" THEN <<>>
        ELSE <<[date        |-> StrOf(RowGet(csv, d.cols, i, d.date_col)),
                description |-> IF d.desc_col # <<>>
                                THEN StrOf(RowGet(csv, d.cols, i, d.desc_col))
                                ELSE <<"Transaction">>,
                amount      |-> Abs(amount.val),
                category    |-> IF d.cat_col # <<>>
                                THEN StrOf(RowGet(csv, d.cols, i, d.cat_col))
                                ELSE <<"Other">>,
                type        |-> tx_type]>>

RECURSIVE RowsFrom(_, _, _)
RowsFrom(csv, d, i) ==
    IF i > Len(csv.rows) THEN <<>>
    ELSE RowTransaction(csv, d, i) \o RowsFrom(csv, d, i + 1)

\* the result of parse_csv_file: Ran plus the number of _parse_csv_with_ai calls
RanCsv(r, reqs, ai) == [res |-> r.res, reqs |-> reqs, gm |-> r.gm, ai |-> ai]

\* the delegation of line 177 inside the try of lines 167-198: an exception
\* it raises is caught at line 197, which delegates again
DelegateInTry(csv, gm, env) ==
    LET first  == _parse_csv_with_ai(csv, gm, env, env.out[1])
        second == _parse_csv_with_ai(csv, first.gm, env, env.out[1 + Len(first.reqs)])
    IN  IF first.res.kind = "ok" THEN RanCsv(first, first.reqs, 1)
        ELSE RanCsv(second, first.reqs \o second.reqs, 2)

\* lines 179-196: the heuristic document
Heuristic(csv, d, gm) ==
    LET txs == RowsFrom(csv, d, 1)
    IN  [res |-> Ok([doc_type |-> "csv", currency |-> "SEK",
                     summary |-> [text |-> "CSV with n transactions", n |-> Len(txs)],
                     transactions |-> txs]),
         reqs |-> <<>>, gm |-> gm, ai |-> 0]

\* parse_csv_file without the try of lines 181-195 around a row: a row that
\* raises ends the loop at line 197, which delegates
parse_csv_file_rows_unguarded(csv, gm, env) ==
    IF ~csv.parses
    THEN LET only == _parse_csv_with_ai(csv, gm, env, env.out[1])
         IN  RanCsv(only, only.reqs, 1)
    ELSE LET d == Detected[csv.header]
         IN  IF d.date_col = <<>> \/ d.amount_col = <<>>
             THEN DelegateInTry(csv, gm, env)
             ELSE IF Len(RowsFrom(csv, d, 1)) < Len(csv.rows)
             THEN LET only == _parse_csv_with_ai(csv, gm, env, env.out[1])
                  IN  RanCsv(only, only.reqs, 1)
             ELSE Heuristic(csv, d, gm)

\* parse_csv_file with read_csv of line 168 outside the try: its exception
\* reaches the caller
parse_csv_file_read_escapes(csv, gm, env) ==
    IF ~csv.parses
    THEN RanCsv(Ran(Raised("ParserError"), <<>>, gm), <<>>, 0)
    ELSE LET d == Detected[csv.header]
         IN  IF d.date_col = <<>> \/ d.amount_col = <<>>
             THEN DelegateInTry(csv, gm, env)
             ELSE Heuristic(csv, d, gm)

\* parse_csv_file (lines 165-198)
parse_csv_file(csv, gm, env) ==
    IF ~csv.parses
    THEN \* read_csv raised: line 198
         LET only == _parse_csv_with_ai(csv, gm, env, env.out[1])
         IN  RanCsv(only, only.reqs, 1)
    ELSE LET d == Detected[csv.header]
         IN  IF d.date_col = <<>> \/ d.amount_col = <<>>
             THEN DelegateInTry(csv, gm, env)
             ELSE Heuristic(csv, d, gm)

----------------------------------------------------------------------------
(* PDF routing.  A PDF is described by what the OCR toolchain does with    *)
(* it: ocr says whether pdf2image and pytesseract import, render whether   *)
(* rendering and recognising succeed, pages is the number of page images,  *)
(* textLen is len(full_text.strip()) and pad the number of whitespace      *)
(* characters around it (line feeds, form feeds), so that len(full_text)   *)
(* is textLen + pad.                                                       *)

\* the threshold of line 155
OcrMinLen == 50

\* the pages of the PDFs drawn
MaxPages == 2

PdfInputs ==
    {p \in [ocr : BOOLEAN, render : BOOLEAN, pages : 0..MaxPages,
            textLen : {0, OcrMinLen, OcrMinLen + 1}, pad : {0, 2}] :
        (p.pages = 0 => (p.textLen = 0 /\ p.pad = 0))}

\* len(full_text) of line 154
FullTextLen(pdf) == pdf.textLen + pdf.pad

PlaceholderText == [src |-> "placeholder", len |-> 53]

\* the handler of lines 159-160
Placeholder(before, env) ==
    LET r == parse_text_document(PlaceholderText, before.gm, env, env.out[1 + Len(before.reqs)])
    IN  Ran(r.res, before.reqs \o r.reqs, r.gm)

\* what the try of lines 150-162 makes of a delegated call
Guarded(r, env) ==
    IF r.res.kind = "ok" THEN r
    ELSE IF r.res.err = "ImportError" THEN Placeholder(r, env)
    ELSE Ran(Raised("PDF parsing error"), r.reqs, r.gm)

\* parse_pdf_file (lines 148-162)
parse_pdf_file(pdf, gm, env) ==
    IF ~pdf.ocr THEN Placeholder(Ran(Raised("ImportError"), <<>>, gm), env)
    ELSE IF ~pdf.render THEN Ran(Raised("PDF parsing error"), <<>>, gm)
    ELSE IF pdf.textLen > OcrMinLen
         THEN Guarded(parse_text_document([src |-> "ocr", len |-> FullTextLen(pdf)],
                                        gm, env, env.out[1]), env)
    ELSE IF pdf.pages = 0 THEN Ran(Raised("PDF parsing error"), <<>>, gm)
    ELSE Guarded(parse_document("page1", gm, env, env.out[1]), env)

----------------------------------------------------------------------------
(* Chat.  A history is a sequence of (role, msg) turns.                    *)

\* history[-6:] of lines 257 and 272
HistoryWindow == 6

\* the turns of the histories drawn
MaxHist == 8

MsgNames == <<"m1", "m2", "m3", "m4", "m5", "m6", "m7", "m8", "m9", "m10">>

Histories ==
    UNION {{[i \in 1..n |-> [role |-> r[i], msg |-> MsgNames[i]]] :
               r \in [1..n -> {"user", "ai"}]} : n \in 0..MaxHist}

UserMessages == {"new", "m3"}

\* history[-7:]: one turn too many
LastTurnsOffByOne(history) ==
    SubSeq(history, Len(history) - Min(Len(history), HistoryWindow + 1) + 1, Len(history))

\* history[-6:]
LastTurns(history) ==
    SubSeq(history, Len(history) - Min(Len(history), HistoryWindow) + 1, Len(history))

\* lines 256-259: the Groq messages
GroqMessages(user_message, financial_context, history) ==
    LET turns == LastTurns(history)
    IN  <<[role |-> "system", content |-> financial_context]>>
        \o [i \in 1..Len(turns) |->
               [role    |-> IF turns[i].role = "user" THEN "user" ELSE "assistant",
                content |-> turns[i].msg]]
        \o <<[role |-> "user", content |-> user_message]>>

\* lines 271-274: the parts of the Gemini prompt, joined by blank lines at line 275
GeminiParts(user_message, financial_context, history) ==
    LET turns == LastTurns(history)
    IN  <<[role |-> "system", content |-> financial_context]>>
        \o [i \in 1..Len(turns) |->
               [role    |-> IF turns[i].role = "user" THEN "User" ELSE "Assistant",
                content |-> turns[i].msg]]
        \o <<[role |-> "User", content |-> user_message]>>

\* chat_with_finances (lines 247-275)
chat_with_finances(user_message, financial_context, history, gm, env) ==
    IF GROQ_API_KEY
    THEN LET messages == GroqMessages(user_message, financial_context, history)
         IN  Ran(_groq_text(messages, env.out[1]),
                 <<[provider |-> "groq", prompt |-> messages]>>, gm)
    ELSE LET g     == _get_gemini(gm, env)
             parts == GeminiParts(user_message, financial_context, history)
         IN  IF g.res.kind = "raised" THEN Ran(g.res, <<>>, g.gm)
             ELSE Ran(GeminiGenerate(parts, env.out[1]),
                      <<[provider |-> "gemini", prompt |-> parts]>>, g.gm)

----------------------------------------------------------------------------
(* Currency.  A currency code is a sequence of characters taken in blocks, *)
(* the cache key is from + "_" + to (line 217), rates are in hundredths.   *)

SEK == <<"SEK">>
USD == <<"USD">>
EUR == <<"EUR">>
GBP == <<"GBP">>
NOK == <<"NOK">>
DKK == <<"DKK">>
JPY == <<"JPY">>

\* the source currencies drawn for a conversion (JPY has no static rate)
FromCurrencies == {SEK, USD, NOK, JPY}

\* the ordered pairs drawn for a rate lookup
FxPairs == {<<SEK, SEK>>, <<USD, USD>>, <<USD, SEK>>, <<NOK, SEK>>, <<JPY, SEK>>,
            <<SEK, USD>>}

\* line 217 with SEK always put last: the two directions of a pair share a key
FxKeyUnordered(from_currency, to_currency) ==
    IF from_currency = SEK
    THEN to_currency \o <<"_">> \o from_currency
    ELSE from_currency \o <<"_">> \o to_currency

\* f"{from_currency}_{to_currency}" (line 217)
FxKey(from_currency, to_currency) == from_currency \o <<"_">> \o to_currency

EmptyCache == [k \in {} |-> 0]

CachePut(cache, key, rate) ==
    [k \in DOMAIN cache \cup {key} |-> IF k = key THEN rate ELSE cache[k]]

\* the table of line 226 and its default of line 227
FallbackRate(from_currency) ==
    CASE from_currency = USD -> 1050
      [] from_currency = EUR -> 1120
      [] from_currency = GBP -> 1310
      [] from_currency = NOK -> 95
      [] from_currency = DKK -> 150
      [] OTHER -> 100

\* what the live service answers: a rate, no usable rate in the body, or no
\* answer at all (network error, timeout)
LiveRates == {1037, 1050}

FetchOutcomes ==
    {[ok |-> TRUE, why |-> "rate", rate |-> r] : r \in LiveRates}
    \cup {[ok |-> FALSE, why |-> w, rate |-> 0] : w \in {"network", "missing"}}

\* lines 221-222: the request and the lookup in its body
LiveFetch(fetch) ==
    IF fetch.ok THEN Ok(fetch.rate)
    ELSE IF fetch.why = "network" THEN Raised("RequestException")
    ELSE Raised("KeyError")

RanFx(res, cache, fetches, reads) ==
    [res |-> res, cache |-> cache, fetches |-> fetches, reads |-> reads]

\* lines 225-227 catching the network errors only
FetchOrFallbackNetworkOnly(from_currency, key, cache, fetch) ==
    LET live == LiveFetch(fetch)
    IN  IF live.kind = "ok" THEN RanFx(live, CachePut(cache, key, live.val), 1, 1)
        ELSE IF live.err = "RequestException"
             THEN RanFx(Ok(FallbackRate(from_currency)), cache, 1, 1)
        ELSE RanFx(live, cache, 1, 1)

\* lines 225-227 storing the static rate under the key as well
FetchOrFallbackStored(from_currency, key, cache, fetch) ==
    LET live == LiveFetch(fetch)
    IN  IF live.kind = "ok" THEN RanFx(live, CachePut(cache, key, live.val), 1, 1)
        ELSE RanFx(Ok(FallbackRate(from_currency)),
                   CachePut(cache, key, FallbackRate(from_currency)), 1, 1)

\* lines 220-227: the live fetch, stored on success, the static table on any
\* exception
FetchOrFallback(from_currency, key, cache, fetch) ==
    LET live == LiveFetch(fetch)
    IN  IF live.kind = "ok" THEN RanFx(live, CachePut(cache, key, live.val), 1, 1)
        ELSE RanFx(Ok(FallbackRate(from_currency)), cache, 1, 1)

\* lines 215-216 left out: the same currency goes through the cache and the fetch
SameCurrencyThroughCache(from_currency, to_currency) == FALSE

\* the test of line 215
SameCurrency(from_currency, to_currency) == from_currency = to_currency

\* get_exchange_rate (lines 214-227)
get_exchange_rate(from_currency, to_currency, cache, fetch) ==
    IF SameCurrency(from_currency, to_currency) THEN RanFx(Ok(100), cache, 0, 0)
    ELSE LET key == FxKey(from_currency, to_currency)
         IN  IF key \in DOMAIN cache THEN RanFx(Ok(cache[key]), cache, 0, 1)
             ELSE FetchOrFallback(from_currency, key, cache, fetch)

\* a transaction as convert_transactions_to_sek sees it: original_currency
\* is <<>> when the entry is absent
Tx(amount, original_amount, original_currency, type) ==
    [amount |-> amount, original_amount |-> original_amount,
     original_currency |-> original_currency, type |-> type]

TxPool == {
    Tx(Num(5), Missing, <<>>, "expense"),       \* 0.05
    Tx(Num(-5000), Missing, <<>>, "expense"),   \* -50
    Tx(Num(334), Num(32), EUR, "income"),       \* 3.34, converted once before
    Tx(Null, Missing, <<>>, "expense"),         \* "amount": null
    Tx(Missing, Missing, <<>>, "income")        \* no "amount" entry
}

\* the transactions of the lists drawn
MaxTxs == 2

\* round(x * rate, 2) of line 239, x and the result in hundredths, rate in
\* hundredths: the nearest hundredth; when the product lies half way the
\* binary float decides (up says which way; equal factors round alike)
RoundProduct(x, rate, up) ==
    LET p == x * rate
        q == p \div 100
        r == p % 100
    IN  IF r < 50 THEN q
        ELSE IF r > 50 THEN q + 1
        ELSE IF up THEN q + 1 ELSE q

\* line 239 cutting the product off instead of rounding it
TimesRateTruncated(v, rate, up) ==
    IF v.t = "nan" THEN Ok(NaN)
    ELSE IF v.t = "num" THEN Ok(Num((v.v * rate) \div 100))
    ELSE IF v.t = "null" THEN Raised("TypeError")
    ELSE Raised("KeyError")

\* round(float(tx["amount"]) * rate, 2) (line 239)
TimesRate(v, rate, up) ==
    IF v.t = "nan" THEN Ok(NaN)
    ELSE IF v.t = "num" THEN Ok(Num(RoundProduct(v.v, rate, up)))
    ELSE IF v.t = "null" THEN Raised("TypeError")
    ELSE Raised("KeyError")

\* lines 236-239 on one transaction: a copy with three entries set;
\* tx.get("amount", 0) of line 237
ConvertOne(tx, source_currency, rate, up) ==
    LET new == TimesRate(tx.amount, rate, up)
    IN  IF new.kind = "raised" THEN new
        ELSE Ok([tx EXCEPT !.original_amount =
                               IF tx.amount.t = "missing" THEN Num(0) ELSE tx.amount,
                           !.original_currency = source_currency,
                           !.amount = new.val])

RECURSIVE ConvertFrom(_, _, _, _, _)
ConvertFrom(transactions, i, source_currency, rate, up) ==
    IF i > Len(transactions) THEN Ok(<<>>)
    ELSE LET one == ConvertOne(transactions[i], source_currency, rate, up)
         IN  IF one.kind = "raised" THEN one
             ELSE LET rest == ConvertFrom(transactions, i + 1, source_currency, rate, up)
                  IN  IF rest.kind = "raised" THEN rest
                      ELSE Ok(<<one.val>> \o rest.val)

\* lines 231-232 left out: SEK is converted like any other currency
HomeCurrencyConverted(source_currency) == FALSE

\* the test of line 231
HomeCurrency(source_currency) == source_currency = SEK

\* convert_transactions_to_sek (lines 230-241); rate is 0 when no rate was
\* looked up
convert_transactions_to_sek(transactions, source_currency, cache, fetch, up) ==
    IF HomeCurrency(source_currency)
    THEN [res |-> Ok(transactions), cache |-> cache, fetches |-> 0, reads |-> 0,
          rate |-> 0, lookups |-> 0]
    ELSE LET g == get_exchange_rate(source_currency, SEK, cache, fetch)
         IN  IF g.res.kind = "raised"
             THEN [res |-> g.res, cache |-> g.cache, fetches |-> g.fetches,
                   reads |-> g.reads, rate |-> 0, lookups |-> 1]
             ELSE [res |-> ConvertFrom(transactions, 1, source_currency, g.res.val, up),
                   cache |-> g.cache, fetches |-> g.fetches, reads |-> g.reads,
                   rate |-> g.res.val, lookups |-> 1]

----------------------------------------------------------------------------
(* get_exchange_rate called from several threads.  The function takes no   *)
(* lock; each thread runs lines 215-227 a step at a time: the test of line *)
(* 218, the read of line 219, the request of lines 221-222, the write of   *)
(* line 223.  The interpreter makes each single dict operation atomic.     *)

\* the threads calling get_exchange_rate
MaxThreads == 2

Threads == 1..MaxThreads

\* the pairs the threads ask for
ThreadPairs == {<<USD, SEK>>, <<NOK, SEK>>, <<USD, USD>>}

\* at: "idle", "check" (before line 218), "read" (before line 219), "fetch"
\* (before line 221), "store" (before line 223), "ret" (returning val)
ThreadAt(at, from_currency, to_currency, rate, val) ==
    [at |-> at, from_currency |-> from_currency, to_currency |-> to_currency,
     rate |-> rate, val |-> val]

ThreadIdle == ThreadAt("idle", <<>>, <<>>, 0, 0)

----------------------------------------------------------------------------
(* The responses handed to the sanitizer: an optional preamble, a fence of *)
(* ticks backticks, an optional language tag, the body, the closing fence  *)
(* and what follows it; or a text without a fence, with stray backticks.   *)

Ticks(n) == [i \in 1..n |-> BT]

SecondBlock == <<WS>> \o Fence \o <<"json", WS, "V2", WS>> \o Fence

FencedInputs ==
    [fenced : {TRUE}, pre : {<<>>, <<"txt", WS>>}, ticks : {FenceLen, FenceLen + 1},
     tag : {<<>>, <<"json">>, <<"JSON">>}, body : {<<"V1">>, <<"X">>},
     post : {<<>>, <<WS, "txt">>, SecondBlock}]

UnfencedInputs ==
    [fenced : {FALSE}, pre : {<<>>, <<WS>>}, ticks : 0..(FenceLen - 1),
     tag : {<<>>}, body : {<<"V1">>, <<"X">>, <<"txt">>}, post : {<<>>, <<WS>>}]

RawOf(in) ==
    IF in.fenced
    THEN in.pre \o Ticks(in.ticks) \o in.tag \o <<WS>> \o in.body \o <<WS>>
         \o Ticks(in.ticks) \o in.post
    ELSE in.pre \o in.body \o Ticks(in.ticks) \o in.post

----------------------------------------------------------------------------
(* src/app.py: the upload page and the chat page.  Streamlit runs the      *)
(* script from top to bottom on every widget event; the widget values (the *)
(* uploaded file, the selected currency) and st.session_state last from    *)
(* one run to the next, and a button is True only in the run its click     *)
(* started.  A user can press a button only when the last run drew it.     *)

\* Python's None, where the other values are records
PyNone == [none |-> TRUE]

\* d.get(k, default) and d[k] = v on a dict
Get(d, k, default) == IF k \in DOMAIN d THEN d[k] ELSE default
DictSet(d, k, v)   == [x \in DOMAIN d \cup {k} |-> IF x = k THEN v ELSE d[x]]

\* a currency code as the documents spell it, as a code of the rate functions
Code(s) == <<s>>

\* the file the uploader holds: its name, its MIME type and what is in it
UploadedFile(name, type, content) == [name |-> name, type |-> type, content |-> content]

\* two statements: one the heuristics read, one without a date column that
\* goes to the provider
CsvA == [parses |-> TRUE, header |-> <<Col(NmDate, "text"), Col(NmAmount, "amounts")>>,
         rows |-> <<Row(CellNeg50, CellDebit)>>]
CsvB == [parses |-> TRUE, header |-> <<Col(NmWhen, "text"), Col(NmAmount, "amounts")>>,
         rows |-> <<Row(CellPos100, CellCredit)>>]

\* the files a user uploads; two of them are different files of one name
Files == {
    UploadedFile("bank.csv", "text/csv", CsvA),
    UploadedFile("bank.csv", "text/csv", CsvB),
    UploadedFile("receipt.png", "image/png", [image |-> "image"])
}

\* what the provider does during an Analyze: it fails, or answers a document
\* without transactions or without the transactions entry
AnalyzeEnvs ==
    {e \in EnvsOneCall : e.lib /\ e.init
                         /\ e.out[1] \in {HttpError, RawFencedJson, RawNoListJson}}

\* what the rate service does during a run of the page: it answers a rate,
\* or it cannot be reached
RateServiceAnswers == {f \in FetchOutcomes : f.why = "network" \/ f.rate = 1050}

\* the currencies picked in the selectbox of line 351
SourceCurrencies == {SEK, USD}

\* lines 119-124
SessionDefaults ==
    [parsed_result |-> PyNone, uploaded_filename |-> None,
     save_success |-> FALSE, chat_history |-> <<>>]

\* the tables documents and transactions (database.py, lines 40-58)
EmptyDb == [documents |-> <<>>, transactions |-> <<>>]

\* lines 364-370: the parser the MIME type selects
ParseUploaded(file, gm, env) ==
    IF file.type = "text/csv" THEN parse_csv_file(file.content, gm, env)
    ELSE IF file.type = "application/pdf" THEN parse_pdf_file(file.content, gm, env)
    ELSE parse_document("image", gm, env, env.out[1])

\* the entries of a parsed transaction that the upload flow reads (lines 141-
\* 149 and 236-239); type is None and original_currency <<>> when absent
TxOf(d) ==
    Tx(Get(d, "amount", Missing), Get(d, "original_amount", Missing),
       Get(d, "original_currency", <<>>), Get(d, "type", None))

\* the parsed document with its transactions reduced to those entries
Parsed(doc) ==
    IF "transactions" \in DOMAIN doc
    THEN DictSet(doc, "transactions",
                 [i \in 1..Len(doc.transactions) |-> TxOf(doc.transactions[i])])
    ELSE doc

\* lines 372-377: the automatic conversion of the parsed document
AutoConvert(parsed, source_currency, cache, fetch, up) ==
    LET doc_currency  == IF "currency" \in DOMAIN parsed THEN Code(parsed.currency)
                         ELSE source_currency
        conv_currency == IF doc_currency # SEK THEN doc_currency ELSE source_currency
    IN  IF conv_currency = SEK THEN [res |-> Ok(parsed), cache |-> cache]
        ELSE IF "transactions" \notin DOMAIN parsed
        THEN [res |-> Raised("KeyError"), cache |-> cache]
        ELSE LET c == convert_transactions_to_sek(parsed.transactions, conv_currency,
                                                  cache, fetch, up)
             IN  IF c.res.kind = "raised" THEN [res |-> c.res, cache |-> c.cache]
                 ELSE [res |-> Ok(DictSet(DictSet(parsed, "transactions", c.res.val),
                                          "converted_from", conv_currency)),
                       cache |-> c.cache]

\* lines 324-327
ResetOnNewName(ss, file) ==
    IF file # PyNone /\ file.name # ss.uploaded_filename
    THEN [ss EXCEPT !.parsed_result = PyNone, !.uploaded_filename = file.name,
                    !.save_success = FALSE]
    ELSE ss

\* lines 352-358: the rate shown next to the selectbox
RatePreview(file, source_currency, cache, fetch) ==
    IF file # PyNone /\ source_currency # SEK
    THEN get_exchange_rate(source_currency, SEK, cache, fetch).cache
    ELSE cache

\* transactions = parsed.get("transactions", []) (line 385)
TransactionsOf(parsed) == Get(parsed, "transactions", <<>>)

\* lines 383-419: what the run draws below the Analyze button
Shown(ss, file) ==
    IF file = PyNone THEN {}
    ELSE {"analyze"}
         \cup (IF ss.parsed_result = PyNone THEN {}
               ELSE IF TransactionsOf(ss.parsed_result) = <<>> THEN {"no_transactions"}
               ELSE {"result"} \cup (IF ss.save_success THEN {} ELSE {"save"}))
         \cup (IF ss.save_success THEN {"banner"} ELSE {})

\* lines 416-419: the banner is drawn once
EndOfRun(ss, file) ==
    IF file # PyNone /\ ss.save_success THEN [ss EXCEPT !.save_success = FALSE] ELSE ss

\* the row of lines 141-149 for one transaction; float(None) raises and the
\* except of line 150 skips the row
StoredRow(doc_id, tx, currency) ==
    IF tx.amount.t = "null" THEN <<>>
    ELSE <<[document_id |-> doc_id,
            amount      |-> IF tx.amount.t = "missing" THEN Num(0) ELSE tx.amount,
            currency    |-> IF tx.original_currency # <<>> THEN tx.original_currency
                            ELSE currency,
            type        |-> IF tx.type = None THEN "expense" ELSE tx.type]>>

RECURSIVE StoredRows(_, _, _, _)
StoredRows(doc_id, transactions, i, currency) ==
    IF i > Len(transactions) THEN <<>>
    ELSE StoredRow(doc_id, transactions[i], currency)
         \o StoredRows(doc_id, transactions, i + 1, currency)

\* what the database does with a save: both inserts commit, save_document
\* raises, or save_transactions raises at connect or commit after the
\* document row was committed
DbOutcomes == {"ok", "document_raises", "transactions_raise"}

\* save_document (lines 127-132) and save_transactions (lines 134-152) as
\* called at lines 404-405
SaveToDatabase(d, file, parsed, out) ==
    LET doc_id == Len(d.documents) + 1
        doc    == [filename |-> file.name,
                   doc_type |-> Get(parsed, "doc_type", "document"),
                   summary  |-> Get(parsed, "summary", [text |-> "", n |-> 0])]
        rows   == StoredRows(doc_id, TransactionsOf(parsed), 1,
                             Code(Get(parsed, "currency", "SEK")))
    IN  IF out = "document_raises" THEN d
        ELSE IF out = "transactions_raise"
        THEN [d EXCEPT !.documents = Append(@, doc)]
        ELSE [documents |-> Append(d.documents, doc),
              transactions |-> d.transactions \o rows]

\* lines 406-407 without the second assignment: the result stays in the session
AfterSaveKeepsResult(ss) == [ss EXCEPT !.save_success = TRUE]

\* lines 406-407
AfterSave(ss) == [ss EXCEPT !.save_success = TRUE, !.parsed_result = PyNone]

\* the documents the upload flow saves in one session
MaxSaves == 2

\* the quick questions of lines 587-594 and the text typed at line 615
Examples == {<<"q1">>, <<"q2">>}
Typed    == {<<"typed">>}

\* the entries of the chat history kept
MaxChat == 4

\* st.session_state.chat_history[:-1]
AllButLast(h) == SubSeq(h, 1, Len(h) - 1)

Entry(role, msg) == [role |-> role, msg |-> msg]

\* a database that holds a row saved in an earlier session
StoredBefore ==
    [documents |-> <<[filename |-> "old.csv", doc_type |-> "csv", summary |-> [text |-> "", n |-> 0]]>>,
     transactions |-> <<[document_id |-> 1, amount |-> Num(10000), currency |-> SEK,
                         type |-> "expense"]>>]

----------------------------------------------------------------------------
(* The state machine.                                                      *)

\* the process before ai_parser is imported; a credential is configured
\* when _get_secret (lines 21-32) finds a non-empty value for it
InitModule ==
    /\ GROQ_API_KEY \in BOOLEAN
    /\ GEMINI_API_KEY \in BOOLEAN
    /\ _gemini_model = FALSE
    /\ _fx_cache = EmptyCache
    /\ pc = "import"
    /\ entry = None
    /\ arg = NoArg
    /\ result = NoResult
    /\ aiCalls = 0
    /\ requests = <<>>
    /\ fxFetches = 0
    /\ fxReads = 0
    /\ fxLookups = 0
    /\ rateUsed = 0
    /\ fxStoredFor = EmptyCache
    /\ threads = [t \in Threads |-> ThreadIdle]

\* a new browser session: no file in the uploader, the selectbox on its
\* first option, the defaults of lines 119-124
InitSession ==
    /\ uploaded = PyNone
    /\ selected_currency = SEK
    /\ session_state = SessionDefaults
    /\ rendered = {}
    /\ parsedFrom = PyNone
    /\ savedFrom = <<>>
    /\ savesOfResult = 0

Init == InitModule /\ InitSession /\ db = EmptyDb

\* the credential names the message of lines 40-42 spells out
NoKeyMessage == {"GROQ_API_KEY", "GEMINI_API_KEY"}

\* the test of line 38 failing as soon as one credential is missing
CredentialsMissingEither(groq, gemini) == ~groq \/ ~gemini

\* the test of line 38
CredentialsMissing(groq, gemini) == ~groq /\ ~gemini

\* the module body, lines 35-43: with no credential the import raises
\* RuntimeError and nothing of the module can be called
ImportModule ==
    /\ pc = "import"
    /\ IF CredentialsMissing(GROQ_API_KEY, GEMINI_API_KEY)
       THEN /\ pc' = "failed"
            /\ entry' = "module"
            /\ result' = [kind |-> "raised", err |-> "RuntimeError", msg |-> NoKeyMessage]
       ELSE /\ pc' = "idle"
            /\ UNCHANGED <<entry, result>>
    /\ UNCHANGED <<GROQ_API_KEY, GEMINI_API_KEY, _gemini_model, _fx_cache, arg, aiCalls,
                   requests, fxFetches, fxReads, fxLookups, rateUsed, fxStoredFor, threads,
                   appVars>>

\* an entry point of the extraction pipeline has run: r is what it did
Finish(name, a, r, ai) ==
    /\ pc' = "done"
    /\ entry' = name
    /\ arg' = a
    /\ result' = r.res
    /\ requests' = r.reqs
    /\ _gemini_model' = r.gm
    /\ aiCalls' = ai
    /\ UNCHANGED <<GROQ_API_KEY, GEMINI_API_KEY, _fx_cache, fxFetches, fxReads, fxLookups,
                   rateUsed, fxStoredFor, threads, appVars>>

CleanJsonCall ==
    /\ pc = "idle"
    /\ \E in \in FencedInputs \cup UnfencedInputs :
          Finish("_clean_json", in, Ran(_clean_json(RawOf(in)), <<>>, _gemini_model), 0)

ParseDocumentCall ==
    /\ pc = "idle"
    /\ \E env \in EnvsOneCall :
          Finish("parse_document", [image |-> "image"],
                 parse_document("image", _gemini_model, env, env.out[1]), 0)

Texts == {[src |-> "text", len |-> n] : n \in {0, TextLimit + 1}}

ParseTextDocumentCall ==
    /\ pc = "idle"
    /\ \E text \in Texts, env \in EnvsOneCall :
          Finish("parse_text_document", text,
                 parse_text_document(text, _gemini_model, env, env.out[1]), 0)

ParsePdfFileCall ==
    /\ pc = "idle"
    /\ \E pdf \in PdfInputs, env \in EnvsOneCall :
          Finish("parse_pdf_file", pdf, parse_pdf_file(pdf, _gemini_model, env), 0)

\* the environments drawn with a CSV text: the provider is consulted only on
\* delegation, so one environment stands for all when both required columns
\* are found
CsvEnvs(csv) ==
    IF csv.parses /\ Detected[csv.header].date_col # <<>>
                  /\ Detected[csv.header].amount_col # <<>>
    THEN {e \in Envs : e.lib /\ e.init /\ \A k \in 1..MaxProviderCalls : e.out[k] = HttpError}
    ELSE Envs

ParseCsvFileCall ==
    /\ pc = "idle"
    /\ \E csv \in CsvInputs :
       \E env \in CsvEnvs(csv) :
          LET r == parse_csv_file(csv, _gemini_model, env)
          IN  Finish("parse_csv_file", csv, r, r.ai)

ChatWithFinancesCall ==
    /\ pc = "idle"
    /\ \E user_message \in UserMessages, history \in Histories, env \in EnvsOneCall :
          Finish("chat_with_finances",
                 [user_message |-> user_message, history |-> history],
                 chat_with_finances(user_message, "ctx", history, _gemini_model, env), 0)

\* a call of the currency functions for the pair (from_currency,
\* to_currency) has run; line 223 is the only place that writes _fx_cache
FinishFx(name, a, from_currency, to_currency, r, lookups, rate) ==
    /\ fxStoredFor' =
          IF r.cache # _fx_cache
          THEN CachePut(fxStoredFor, <<from_currency, to_currency>>,
                        r.cache[FxKey(from_currency, to_currency)])
          ELSE fxStoredFor
    /\ pc' = "done"
    /\ entry' = name
    /\ arg' = a
    /\ result' = r.res
    /\ _fx_cache' = r.cache
    /\ fxFetches' = r.fetches
    /\ fxReads' = r.reads
    /\ fxLookups' = lookups
    /\ rateUsed' = rate
    /\ UNCHANGED <<GROQ_API_KEY, GEMINI_API_KEY, _gemini_model, aiCalls, requests, threads,
                   appVars>>

GetExchangeRateCall ==
    /\ pc = "idle"
    /\ \E pair \in FxPairs, fetch \in FetchOutcomes :
          FinishFx("get_exchange_rate",
                   [from_currency |-> pair[1], to_currency |-> pair[2],
                    cache |-> _fx_cache, fetch |-> fetch],
                   pair[1], pair[2],
                   get_exchange_rate(pair[1], pair[2], _fx_cache, fetch), 1, 0)

ConvertTransactionsToSekCall ==
    /\ pc = "idle"
    /\ \E transactions \in SeqsUpTo(TxPool, MaxTxs), source_currency \in FromCurrencies,
          fetch \in FetchOutcomes, up \in BOOLEAN :
          LET r == convert_transactions_to_sek(transactions, source_currency, _fx_cache, fetch, up)
          IN  FinishFx("convert_transactions_to_sek",
                       [transactions |-> transactions, source_currency |-> source_currency,
                        cache |-> _fx_cache, fetch |-> fetch],
                       source_currency, SEK, r, r.lookups, r.rate)

\* the call returns to its caller: what is left is the process-wide state
Return ==
    /\ pc = "done"
    /\ pc' = "idle"
    /\ entry' = None
    /\ arg' = NoArg
    /\ result' = NoResult
    /\ aiCalls' = 0
    /\ requests' = <<>>
    /\ fxFetches' = 0
    /\ fxReads' = 0
    /\ fxLookups' = 0
    /\ rateUsed' = 0
    /\ UNCHANGED <<GROQ_API_KEY, GEMINI_API_KEY, _gemini_model, _fx_cache, fxStoredFor,
                   threads, appVars>>

\* the variables a step of a thread inside get_exchange_rate leaves alone
ThreadFrame ==
    UNCHANGED <<GROQ_API_KEY, GEMINI_API_KEY, _gemini_model, pc, entry, arg, result, aiCalls,
                requests, fxFetches, fxReads, fxLookups, rateUsed, fxStoredFor, appVars>>

\* lines 214-217: the call, the test of line 215 and the key
ThreadCall(t) ==
    /\ pc = "idle"
    /\ threads[t].at = "idle"
    /\ \E pair \in ThreadPairs :
          threads' = [threads EXCEPT ![t] =
              IF SameCurrency(pair[1], pair[2])
              THEN ThreadAt("ret", pair[1], pair[2], 0, 100)
              ELSE ThreadAt("check", pair[1], pair[2], 0, 0)]
    /\ UNCHANGED _fx_cache
    /\ ThreadFrame

\* line 218: key in _fx_cache
ThreadCheck(t) ==
    /\ threads[t].at = "check"
    /\ threads' = [threads EXCEPT ![t].at =
          IF FxKey(threads[t].from_currency, threads[t].to_currency) \in DOMAIN _fx_cache
          THEN "read" ELSE "fetch"]
    /\ UNCHANGED _fx_cache
    /\ ThreadFrame

\* line 219: return _fx_cache[key]
ThreadRead(t) ==
    /\ threads[t].at = "read"
    /\ threads' = [threads EXCEPT
          ![t].at = "ret",
          ![t].val = _fx_cache[FxKey(threads[t].from_currency, threads[t].to_currency)]]
    /\ UNCHANGED _fx_cache
    /\ ThreadFrame

\* lines 221-222, and lines 225-227 when they raise
ThreadFetch(t) ==
    /\ threads[t].at = "fetch"
    /\ \E fetch \in FetchOutcomes :
          LET live == LiveFetch(fetch)
          IN  threads' = [threads EXCEPT ![t] =
                  IF live.kind = "ok"
                  THEN [@ EXCEPT !.at = "store", !.rate = live.val]
                  ELSE [@ EXCEPT !.at = "ret",
                                 !.val = FallbackRate(threads[t].from_currency)]]
    /\ UNCHANGED _fx_cache
    /\ ThreadFrame

\* lines 223-224: _fx_cache[key] = rate; return rate
ThreadStore(t) ==
    /\ threads[t].at = "store"
    /\ _fx_cache' = CachePut(_fx_cache,
                             FxKey(threads[t].from_currency, threads[t].to_currency),
                             threads[t].rate)
    /\ threads' = [threads EXCEPT ![t].at = "ret", ![t].val = threads[t].rate]
    /\ ThreadFrame

\* the call returns to the thread's caller
ThreadReturn(t) ==
    /\ threads[t].at = "ret"
    /\ threads' = [threads EXCEPT ![t] = ThreadIdle]
    /\ UNCHANGED _fx_cache
    /\ ThreadFrame

\* get_exchange_rate called from several threads at once
NextThreads ==
    \/ ImportModule
    \/ \E t \in Threads :
          \/ ThreadCall(t)
          \/ ThreadCheck(t)
          \/ ThreadRead(t)
          \/ ThreadFetch(t)
          \/ ThreadStore(t)
          \/ ThreadReturn(t)

\* the extraction and chat entry points; they never touch _fx_cache
Next ==
    \/ ImportModule
    \/ CleanJsonCall
    \/ ParseDocumentCall
    \/ ParseTextDocumentCall
    \/ ParsePdfFileCall
    \/ ParseCsvFileCall
    \/ ChatWithFinancesCall
    \/ Return

Spec == Init /\ [][Next]_vars

\* the currency entry points; they never touch the credentials or _gemini_model
NextFx ==
    \/ ImportModule
    \/ GetExchangeRateCall
    \/ ConvertTransactionsToSekCall
    \/ Return

\* the currency functions read neither credential: one configuration stands for all
InitFx == Init /\ GROQ_API_KEY /\ GEMINI_API_KEY

SpecFx == InitFx /\ [][NextFx]_vars

SpecThreads == InitFx /\ [][NextThreads]_vars

\* what a run of a page of app.py leaves alone in ai_parser
AppFrame ==
    UNCHANGED <<GROQ_API_KEY, GEMINI_API_KEY, pc, entry, arg, result, aiCalls, requests,
                fxFetches, fxReads, fxLookups, rateUsed, fxStoredFor, threads>>

\* a run of the upload page that no button started (lines 322-358, 383-419);
\* the rate service answers alike to the requests of one run
UploadRun(file, currency) ==
    \E fetch \in RateServiceAnswers :
        LET ss == ResetOnNewName(session_state, file)
        IN  /\ _fx_cache' = RatePreview(file, currency, _fx_cache, fetch)
            /\ session_state' = EndOfRun(ss, file)
            /\ rendered' = Shown(ss, file)
            /\ parsedFrom' = IF ss.parsed_result = PyNone THEN PyNone ELSE parsedFrom
            /\ UNCHANGED <<_gemini_model, db, savedFrom, savesOfResult>>
            /\ AppFrame

\* the user puts a file into the uploader of line 322, or takes it out
ChangeFile ==
    /\ pc = "idle"
    /\ \E file \in Files \cup {PyNone} :
          /\ file # uploaded
          /\ uploaded' = file
          /\ UNCHANGED selected_currency
          /\ UploadRun(file, selected_currency)

\* the user picks another currency in the selectbox of line 351
SelectCurrency ==
    /\ pc = "idle"
    /\ uploaded # PyNone
    /\ \E currency \in SourceCurrencies :
          /\ currency # selected_currency
          /\ selected_currency' = currency
          /\ UNCHANGED uploaded
          /\ UploadRun(uploaded, currency)

\* the user presses Analyze Document (lines 360-381)
ClickAnalyze ==
    /\ pc = "idle"
    /\ "analyze" \in rendered
    /\ \E fetch \in RateServiceAnswers, env \in AnalyzeEnvs, up \in BOOLEAN :
          LET ss0    == ResetOnNewName(session_state, uploaded)
              cache0 == RatePreview(uploaded, selected_currency, _fx_cache, fetch)
              ss1    == [ss0 EXCEPT !.save_success = FALSE]
          IN  \E p \in {ParseUploaded(uploaded, _gemini_model, env)} :
              \E c \in {IF p.res.kind = "raised" THEN [res |-> p.res, cache |-> cache0]
                         ELSE AutoConvert(Parsed(p.res.val), selected_currency, cache0,
                                          fetch, up)} :
              \E ss2 \in {IF c.res.kind = "ok" THEN [ss1 EXCEPT !.parsed_result = c.res.val]
                           ELSE ss1} :
                  /\ _gemini_model' = p.gm
                  /\ _fx_cache' = c.cache
                  /\ session_state' = EndOfRun(ss2, uploaded)
                  /\ rendered' = Shown(ss2, uploaded)
                                 \cup (IF c.res.kind = "ok" THEN {} ELSE {"error"})
                  /\ parsedFrom' = IF c.res.kind = "ok" THEN uploaded
                                   ELSE IF ss2.parsed_result = PyNone THEN PyNone
                                   ELSE parsedFrom
                  /\ savesOfResult' = IF c.res.kind = "ok" THEN 0 ELSE savesOfResult
                  /\ UNCHANGED <<uploaded, selected_currency, db, savedFrom>>
                  /\ AppFrame

\* the user presses Save to Database (lines 402-410); st.rerun() of line 408
\* starts the script again from the top
ClickSave ==
    /\ pc = "idle"
    /\ "save" \in rendered
    /\ Len(db.documents) < MaxSaves
    /\ \E fetch \in RateServiceAnswers, out \in DbOutcomes :
          LET ss0    == ResetOnNewName(session_state, uploaded)
              cache0 == RatePreview(uploaded, selected_currency, _fx_cache, fetch)
              parsed == ss0.parsed_result
              saved  == out = "ok"
          IN  \E ss1 \in {IF saved THEN ResetOnNewName(AfterSave(ss0), uploaded) ELSE ss0} :
                  /\ db' = SaveToDatabase(db, uploaded, parsed, out)
                  /\ savedFrom' = IF out = "document_raises" THEN savedFrom
                                  ELSE Append(savedFrom, parsed)
                  /\ savesOfResult' = IF saved THEN savesOfResult + 1 ELSE savesOfResult
                  /\ session_state' = EndOfRun(ss1, uploaded)
                  /\ rendered' = Shown(ss1, uploaded)
                                 \cup (IF saved THEN {} ELSE {"save_failed"})
                  /\ _fx_cache' = IF saved
                                  THEN RatePreview(uploaded, selected_currency, cache0, fetch)
                                  ELSE cache0
                  /\ parsedFrom' = IF ss1.parsed_result = PyNone THEN PyNone ELSE parsedFrom
                  /\ UNCHANGED <<uploaded, selected_currency, _gemini_model>>
                  /\ AppFrame

NextUpload ==
    \/ ImportModule
    \/ ChangeFile
    \/ SelectCurrency
    \/ ClickAnalyze
    \/ ClickSave

\* the upload page with both credentials configured, so that each parser
\* can answer
InitUpload == Init /\ GROQ_API_KEY /\ GEMINI_API_KEY

SpecUpload == InitUpload /\ [][NextUpload]_vars

\* what a run of the chat page leaves alone
ChatFrame ==
    /\ UNCHANGED <<_fx_cache, uploaded, selected_currency, rendered, db, parsedFrom,
                   savedFrom, savesOfResult>>
    /\ AppFrame

\* the chat widgets are drawn when there are stored transactions (line 565)
ChatShown == pc = "idle" /\ db.transactions # <<>>

\* the user presses a quick question (lines 596-604): the call of line 602
\* stands in no try, an exception ends the run
ClickQuickQuestion ==
    /\ ChatShown
    /\ Len(session_state.chat_history) + 2 <= MaxChat
    /\ \E ex \in Examples, env \in EnvsOneCall :
          LET asked == Append(session_state.chat_history, Entry("user", ex))
              r     == chat_with_finances(ex, "ctx", AllButLast(asked), _gemini_model, env)
          IN  /\ session_state' =
                    [session_state EXCEPT !.chat_history =
                        IF r.res.kind = "ok" THEN Append(asked, Entry("ai", r.res.val))
                        ELSE asked]
              /\ _gemini_model' = r.gm
              /\ ChatFrame

\* the user sends a typed message (lines 615-625)
ChatInput ==
    /\ ChatShown
    /\ Len(session_state.chat_history) + 2 <= MaxChat
    /\ \E user_input \in Typed, env \in EnvsOneCall :
          LET asked == Append(session_state.chat_history, Entry("user", user_input))
              r     == chat_with_finances(user_input, "ctx", AllButLast(asked),
                                          _gemini_model, env)
          IN  /\ session_state' =
                    [session_state EXCEPT !.chat_history =
                        IF r.res.kind = "ok" THEN Append(asked, Entry("ai", r.res.val))
                        ELSE Append(asked, Entry("ai", <<"Error", r.res.err>>))]
              /\ _gemini_model' = r.gm
              /\ ChatFrame

\* the user presses Clear Chat (lines 627-630)
ClickClearChat ==
    /\ ChatShown
    /\ session_state.chat_history # <<>>
    /\ session_state' = [session_state EXCEPT !.chat_history = <<>>]
    /\ UNCHANGED _gemini_model
    /\ ChatFrame

NextChat ==
    \/ ImportModule
    \/ ClickQuickQuestion
    \/ ChatInput
    \/ ClickClearChat

\* the chat page of a session opened on a database filled earlier
InitChat == InitModule /\ InitSession /\ db = StoredBefore

SpecChat == InitChat /\ [][NextChat]_vars

----------------------------------------------------------------------------
(* Properties.                                                             *)

Done(name) == pc = "done" /\ entry = name

\* both required columns are found by the keyword search
BothColumnsFound(csv) ==
    /\ csv.parses
    /\ Detected[csv.header].date_col # <<>>
    /\ Detected[csv.header].amount_col # <<>>

ExtractionAndChat ==
    {"parse_document", "parse_text_document", "parse_pdf_file", "parse_csv_file",
     "chat_with_finances"}

\* C1: a CSV text in which no date column or no amount column is found makes
\* parse_csv_file invoke _parse_csv_with_ai exactly once, whatever that
\* invocation does.
C1_FallbackInvokedOnce ==
    (Done("parse_csv_file") /\ ~BothColumnsFound(arg)) => aiCalls = 1

\* C2: a CSV text that parses and has a date and an amount column gets the
\* heuristic document and no AI fallback, however many rows fail.
C2_HeuristicWithoutAi ==
    (Done("parse_csv_file") /\ BothColumnsFound(arg)) =>
        /\ aiCalls = 0
        /\ requests = <<>>
        /\ result.kind = "ok"
        /\ result.val.doc_type = "csv"
        /\ result.val.summary.n = Len(result.val.transactions)
        /\ Len(result.val.transactions) <= Len(arg.rows)

\* C2 happens: both columns found, two rows, and at least one of them failed
C2_Witness ==
    /\ Done("parse_csv_file")
    /\ BothColumnsFound(arg)
    /\ Len(arg.rows) = 2
    /\ result.kind = "ok"
    /\ Len(result.val.transactions) < Len(arg.rows)

\* C3 as claimed: no call of parse_csv_file ends in an exception.
C3_NeverFailsOutward ==
    Done("parse_csv_file") => result.kind = "ok"

\* C3 amended: a table that does not parse or lacks a required column is
\* delegated to AI extraction; an exception reaches the caller only out of
\* that delegated extraction; a row that fails is skipped, without delegation
\* and without an exception.
C3_FailsOnlyThroughAi ==
    Done("parse_csv_file") =>
        /\ ~BothColumnsFound(arg) => aiCalls >= 1
        /\ result.kind = "raised" =>
              /\ aiCalls >= 1
              /\ result.err \in {"ProviderRequestError", "JSONDecodeError",
                                 "RuntimeError", "ImportError"}
        /\ BothColumnsFound(arg) => (result.kind = "ok" /\ aiCalls = 0)

\* C3 happens: read_csv raised, the text was delegated and the delegated
\* extraction raised in turn
C3_Witness ==
    /\ Done("parse_csv_file")
    /\ ~arg.parses
    /\ aiCalls >= 1
    /\ result.kind = "raised"

\* C4: an extraction or chat call makes at most one network call to an AI
\* provider.
C4_AtMostOneProviderCall ==
    (pc = "done" /\ entry \in ExtractionAndChat) => Len(requests) <= 1

\* y is x times rate rounded to two decimals (all in hundredths)
RoundedProduct(y, x, rate) ==
    /\ x.t = "num"
    /\ y.t = "num"
    /\ 100 * y.v - x.v * rate <= 50
    /\ x.v * rate - 100 * y.v <= 50

\* C5: for a source currency other than SEK every transaction of the output
\* carries its amount before conversion as original_amount, the source
\* currency as original_currency, and as amount that amount times the rate
\* get_exchange_rate returned for this call, rounded to two decimals.
C5_ConvertedAmounts ==
    (Done("convert_transactions_to_sek") /\ arg.source_currency # SEK
        /\ result.kind = "ok") =>
        /\ fxLookups = 1
        /\ Len(result.val) = Len(arg.transactions)
        /\ \A i \in 1..Len(result.val) :
              /\ result.val[i].original_amount = arg.transactions[i].amount
              /\ result.val[i].original_currency = arg.source_currency
              /\ RoundedProduct(result.val[i].amount, arg.transactions[i].amount, rateUsed)

\* C5 happens: two transactions converted from USD
C5_Witness ==
    /\ Done("convert_transactions_to_sek")
    /\ arg.source_currency = USD
    /\ result.kind = "ok"
    /\ Len(result.val) = 2
    /\ result.val[1].amount # arg.transactions[1].amount

\* C6: with source currency SEK the list comes back as it went in, no rate
\* is looked up, and converting the result again changes nothing.
C6_HomeCurrencyNoOp ==
    (Done("convert_transactions_to_sek") /\ arg.source_currency = SEK) =>
        /\ result.kind = "ok"
        /\ result.val = arg.transactions
        /\ fxLookups = 0
        /\ fxFetches = 0
        /\ fxReads = 0
        /\ _fx_cache = arg.cache
        /\ convert_transactions_to_sek(result.val, SEK, _fx_cache, arg.fetch, TRUE).res
             = result

\* C6 happens: a list of two transactions, one without an amount, given as SEK
C6_Witness ==
    /\ Done("convert_transactions_to_sek")
    /\ arg.source_currency = SEK
    /\ Len(arg.transactions) = 2
    /\ arg.transactions[1].amount.t = "missing"
    /\ result.kind = "ok"

\* the static rates the claim names, in hundredths
ClaimedFallback(c) ==
    CASE c = USD -> 1050
      [] c = EUR -> 1120
      [] c = GBP -> 1310
      [] c = NOK -> 95
      [] c = DKK -> 150
      [] OTHER -> 100

NotCached(a) ==
    /\ a.from_currency # a.to_currency
    /\ FxKey(a.from_currency, a.to_currency) \notin DOMAIN a.cache

\* C7: get_exchange_rate never raises; for a pair that is not cached and a
\* live fetch that fails in any way it returns the static rate of the
\* from-currency, 1.0 for a code without one.
C7_FallbackNeverRaises ==
    Done("get_exchange_rate") =>
        /\ result.kind = "ok"
        /\ (NotCached(arg) /\ ~arg.fetch.ok) =>
              result.val = ClaimedFallback(arg.from_currency)

\* C7 happens: USD to SEK, not cached, the body of the answer holds no rate
C7_Witness ==
    /\ Done("get_exchange_rate")
    /\ arg.from_currency = USD
    /\ arg.to_currency = SEK
    /\ NotCached(arg)
    /\ arg.fetch.why = "missing"
    /\ result.kind = "ok"
    /\ result.val = 1050

\* C8: get_exchange_rate(X, X) returns 1.0 without a network call and
\* without reading or writing the cache, whatever the cache holds.
C8_SameCurrencyIsOne ==
    (Done("get_exchange_rate") /\ arg.from_currency = arg.to_currency) =>
        /\ result.kind = "ok"
        /\ result.val = 100
        /\ fxFetches = 0
        /\ fxReads = 0
        /\ _fx_cache = arg.cache

\* C8 happens: USD to USD while the cache holds rates
C8_Witness ==
    /\ Done("get_exchange_rate")
    /\ arg.from_currency = USD
    /\ arg.to_currency = USD
    /\ DOMAIN arg.cache # {}
    /\ result.kind = "ok"

\* the role a history turn is sent under
SentRole(provider, role) ==
    IF provider = "groq"
    THEN (IF role = "user" THEN "user" ELSE "assistant")
    ELSE (IF role = "user" THEN "User" ELSE "Assistant")

\* C9: the request chat_with_finances sends holds, after the system text,
\* exactly the last min(n, 6) turns of the history in their order, and then
\* the new user message once, as its last entry.
C9_LastSixTurnsForwarded ==
    (Done("chat_with_finances") /\ requests # <<>>) =>
        LET body == requests[1].prompt
            prov == requests[1].provider
            h    == arg.history
            n    == Len(h)
            k    == IF n <= 6 THEN n ELSE 6
        IN  /\ Len(requests) = 1
            /\ Len(body) = k + 2
            /\ body[1].role = "system"
            /\ \A j \in 1..k :
                  /\ body[1 + j].content = h[n - k + j].msg
                  /\ body[1 + j].role = SentRole(prov, h[n - k + j].role)
            /\ body[k + 2].content = arg.user_message
            /\ body[k + 2].role = SentRole(prov, "user")

\* C9 happens: a history of eight turns
C9_Witness ==
    /\ Done("chat_with_finances")
    /\ Len(arg.history) = 8
    /\ Len(requests) = 1
    /\ Len(requests[1].prompt) = 8

\* C10: a response holding a well-formed fenced block of valid data, with or
\* without a language tag and with or without text after the closing fence,
\* is parsed to the content of its first fenced block.
C10_FencedBlockParsed ==
    (Done("_clean_json") /\ arg.fenced /\ arg.ticks = FenceLen /\ arg.body = <<"V1">>) =>
        /\ result.kind = "ok"
        /\ result.val.json = "V1"

\* C11: for a text without a fence marker _clean_json gives what json.loads
\* gives on the text itself: the same record, or the same failure.
C11_UnfencedAsDirectParse ==
    (Done("_clean_json") /\ ~arg.fenced) => result = JsonLoads(RawOf(arg))

\* the cell of row i under the first column whose trimmed, lowercased name
\* holds an amount keyword
AmountCell(csv, i) ==
    LET hits == {j \in 1..Len(csv.header) :
                    \E k \in AmountKeys : Contains(Lower(Strip(csv.header[j].name)), k)}
    IN  CellAt(csv, i, CHOOSE j \in hits : \A x \in hits : j <= x)

\* a cell that holds a decimal number, with a point or a comma
Parseable(cell) == cell.k \in {"num", "comma"}

\* what the claim expects of the rows from i on: for every row with a
\* parseable amount a, in order, |a| and the type its sign gives
RECURSIVE ClaimedBySign(_, _)
ClaimedBySign(csv, i) ==
    IF i > Len(csv.rows) THEN <<>>
    ELSE LET c == AmountCell(csv, i)
         IN  (IF Parseable(c)
              THEN <<[amount |-> Num(IF c.v < 0 THEN -c.v ELSE c.v),
                      type   |-> IF c.v < 0 THEN "expense" ELSE "income"]>>
              ELSE <<>>)
             \o ClaimedBySign(csv, i + 1)

\* amount and type of the transactions that carry a number as amount
RECURSIVE NumericAmountAndType(_)
NumericAmountAndType(txs) ==
    IF txs = <<>> THEN <<>>
    ELSE (IF Head(txs).amount.t = "num"
          THEN <<[amount |-> Head(txs).amount, type |-> Head(txs).type]>>
          ELSE <<>>)
         \o NumericAmountAndType(Tail(txs))

NoTypeColumn(csv) == BothColumnsFound(csv) /\ Detected[csv.header].type_col = <<>>

\* C12: on the heuristic path without a type column every row with a
\* parseable amount a yields one transaction, of type expense when a < 0 and
\* income otherwise, with amount |a|.
C12_ClassifiedBySign ==
    (Done("parse_csv_file") /\ NoTypeColumn(arg)) =>
        /\ result.kind = "ok"
        /\ NumericAmountAndType(result.val.transactions) = ClaimedBySign(arg, 1)

ExtractionEntryPoints ==
    {"parse_document", "parse_text_document", "parse_pdf_file", "parse_csv_file"}

\* a transaction as the data model wants it: a number >= 0 as amount, and a
\* type that is income or expense
WellFormedTransaction(tx) ==
    /\ "amount" \in DOMAIN tx
    /\ tx.amount.t = "num"
    /\ tx.amount.v >= 0
    /\ "type" \in DOMAIN tx
    /\ tx.type \in {"income", "expense"}

\* C13: every document an extraction entry point returns has a transactions
\* sequence, and every transaction in it, like every transaction
\* convert_transactions_to_sek returns, has amount >= 0 and a type that is
\* income or expense.
C13_TransactionsWellFormed ==
    /\ (pc = "done" /\ entry \in ExtractionEntryPoints /\ result.kind = "ok") =>
          /\ "transactions" \in DOMAIN result.val
          /\ \A i \in 1..Len(result.val.transactions) :
                WellFormedTransaction(result.val.transactions[i])
    /\ (Done("convert_transactions_to_sek") /\ result.kind = "ok") =>
          \A i \in 1..Len(result.val) : WellFormedTransaction(result.val[i])

\* C14: with neither credential configured the import fails at once with a
\* configuration error that names both credentials, and no entry point is
\* ever called; with at least one credential the import succeeds.
C14_FailFastWithoutCredentials ==
    /\ (~GROQ_API_KEY /\ ~GEMINI_API_KEY) =>
          /\ pc \in {"import", "failed"}
          /\ entry \in {None, "module"}
    /\ pc = "failed" =>
          /\ ~GROQ_API_KEY /\ ~GEMINI_API_KEY
          /\ result.kind = "raised"
          /\ result.err = "RuntimeError"
          /\ {"GROQ_API_KEY", "GEMINI_API_KEY"} \subseteq result.msg
    /\ (GROQ_API_KEY \/ GEMINI_API_KEY) => pc # "failed"

\* C14 happens: the import has failed for want of a credential
C14_Witness ==
    /\ pc = "failed"
    /\ ~GROQ_API_KEY
    /\ ~GEMINI_API_KEY
    /\ result.kind = "raised"

\* a request of the call went to this provider
Called(provider) == \E k \in 1..Len(requests) : requests[k].provider = provider

\* the call ran a text completion: parse_text_document, chat, or
\* parse_csv_file through _parse_csv_with_ai
TextCompletionRan ==
    \/ Done("parse_text_document")
    \/ Done("chat_with_finances")
    \/ (Done("parse_csv_file") /\ aiCalls >= 1)

\* C15: a text completion calls Groq exactly when the Groq credential is
\* configured and Gemini only when it is not; parse_document calls Gemini
\* only, and without the Gemini credential it fails without calling Groq.
C15_ProviderSelection ==
    /\ TextCompletionRan =>
          /\ Called("groq") <=> GROQ_API_KEY
          /\ Called("gemini") => ~GROQ_API_KEY
    /\ Done("parse_document") =>
          /\ ~Called("groq")
          /\ ~GEMINI_API_KEY => (result.kind = "raised" /\ requests = <<>>)

\* C15 happens: without the Groq credential a text went to Gemini
C15_Witness ==
    /\ Done("parse_text_document")
    /\ ~GROQ_API_KEY
    /\ Len(requests) = 1
    /\ requests[1].provider = "gemini"
    /\ result.kind = "ok"

\* a request of the call carried a prompt of this kind ("text" or "image")
Prompted(kind) == \E k \in 1..Len(requests) : requests[k].prompt.kind = kind

\* C16: with a working OCR toolchain parse_pdf_file uses the text path and
\* never the vision path when the concatenated recognised text is longer
\* than 50 characters, and otherwise the vision path on the first page and
\* never the text path.
C16_RoutedOnOcrLength ==
    (Done("parse_pdf_file") /\ arg.ocr /\ arg.render) =>
        IF FullTextLen(arg) > 50
        THEN /\ ~Prompted("image")
             /\ result.kind = "ok" => Prompted("text")
        ELSE /\ ~Prompted("text")
             /\ result.kind = "ok" => Prompted("image")

\* request k of the call carried the placeholder text
PlaceholderSent(k) ==
    /\ requests[k].prompt.kind = "text"
    /\ requests[k].prompt.src.src = "placeholder"

\* C17: parse_pdf_file extracts from the placeholder text exactly when the
\* import of the OCR toolchain fails; the call then does not fail for the
\* missing toolchain, and no other failure leads to the placeholder.
C17_PlaceholderOnlyWithoutOcr ==
    Done("parse_pdf_file") =>
        /\ arg.ocr => \A k \in 1..Len(requests) : ~PlaceholderSent(k)
        /\ ~arg.ocr =>
              /\ \A k \in 1..Len(requests) : PlaceholderSent(k)
              /\ GROQ_API_KEY => Len(requests) = 1
              /\ result.kind = "raised" => result.err # "PDF parsing error"

\* the call looked up a pair whose key the cache held when it began
CacheHit(a) ==
    /\ a.from_currency # a.to_currency
    /\ FxKey(a.from_currency, a.to_currency) \in DOMAIN a.cache

\* a stored rate stays: every key of the cache is there after the step, with
\* the same rate
CacheEntriesKept ==
    \A k \in DOMAIN _fx_cache : k \in DOMAIN _fx_cache' /\ _fx_cache'[k] = _fx_cache[k]

\* C18: a rate once stored for an ordered pair is never changed or removed;
\* every later get_exchange_rate call for the pair returns that rate without
\* a network call; and a call answered from the cache returns the rate that
\* was stored for its own ordered pair, never that of another pair.
C18_CachedRateIsStable ==
    /\ [][CacheEntriesKept]_vars
    /\ [](\A p \in DOMAIN fxStoredFor :
             /\ FxKey(p[1], p[2]) \in DOMAIN _fx_cache
             /\ _fx_cache[FxKey(p[1], p[2])] = fxStoredFor[p])
    /\ []((Done("get_exchange_rate") /\ arg.from_currency # arg.to_currency) =>
             LET p == <<arg.from_currency, arg.to_currency>>
             IN  /\ CacheHit(arg) =>
                       /\ result = Ok(arg.cache[FxKey(p[1], p[2])])
                       /\ fxFetches = 0
                       /\ _fx_cache = arg.cache
                 /\ fxFetches = 0 =>
                       /\ p \in DOMAIN fxStoredFor
                       /\ result = Ok(fxStoredFor[p]))

\* C18 happens: USD to SEK answered from the cache while the cache also
\* holds a rate for SEK to USD
C18_Witness ==
    /\ Done("get_exchange_rate")
    /\ arg.from_currency = USD
    /\ arg.to_currency = SEK
    /\ CacheHit(arg)
    /\ FxKey(SEK, USD) \in DOMAIN arg.cache
    /\ arg.cache[FxKey(SEK, USD)] # arg.cache[FxKey(USD, SEK)]
    /\ fxFetches = 0
    /\ result.kind = "ok"

\* the ordered pair a currency call asks the rate of
PairOf(name, a) ==
    IF name = "get_exchange_rate" THEN <<a.from_currency, a.to_currency>>
    ELSE <<a.source_currency, SEK>>

\* a step that changes the cache is a call whose live fetch succeeded, and
\* what it adds is the fetched rate under the key of its pair
CacheWrittenByLiveFetchOnly ==
    _fx_cache' # _fx_cache =>
        /\ pc' = "done"
        /\ arg'.fetch.ok
        /\ fxFetches' = 1
        /\ _fx_cache' = CachePut(_fx_cache,
                                 FxKey(PairOf(entry', arg')[1], PairOf(entry', arg')[2]),
                                 arg'.fetch.rate)

\* C19: the cache only ever takes rates that a live fetch delivered: a
\* failed fetch returns the static rate and leaves the cache as it was, and
\* a call for a pair that is not cached always attempts the live fetch.
C19_FallbackNotCached ==
    /\ [][CacheWrittenByLiveFetchOnly]_vars
    /\ []((Done("get_exchange_rate") /\ NotCached(arg)) =>
             /\ fxFetches = 1
             /\ ~arg.fetch.ok =>
                   /\ _fx_cache = arg.cache
                   /\ result = Ok(ClaimedFallback(arg.from_currency)))

\* C19 happens: NOK to SEK, not cached, the fetch fails and the cache, which
\* holds another pair, stays as it was
C19_Witness ==
    /\ Done("get_exchange_rate")
    /\ arg.from_currency = NOK
    /\ arg.to_currency = SEK
    /\ NotCached(arg)
    /\ ~arg.fetch.ok
    /\ fxFetches = 1
    /\ DOMAIN _fx_cache # {}
    /\ FxKey(NOK, SEK) \notin DOMAIN _fx_cache

\* thread t has tested the cache (line 218) and has not yet finished with it:
\* its read (line 219) or its request and write (lines 221-223) are to come
InCacheAccess(t) == threads[t].at \in {"read", "fetch", "store"}

\* C20: the accesses of concurrent get_exchange_rate calls to the cache are
\* mutually exclusive: while one call is between its test of the cache and
\* its read or write, no other call is.
C20_CacheAccessExclusive ==
    \A t, u \in Threads : (t # u /\ InCacheAccess(t)) => ~InCacheAccess(u)

\* the cell of row i under the first column whose trimmed, lowercased name
\* holds a date keyword
DateCell(csv, i) ==
    LET hits == {j \in 1..Len(csv.header) :
                    \E k \in DateKeys : Contains(Lower(Strip(csv.header[j].name)), k)}
    IN  CellAt(csv, i, CHOOSE j \in hits : \A x \in hits : j <= x)

\* what the claim expects of the rows from i on: the rows with a parseable
\* amount, in order, each named by its date cell
RECURSIVE ClaimedKept(_, _)
ClaimedKept(csv, i) ==
    IF i > Len(csv.rows) THEN <<>>
    ELSE (IF Parseable(AmountCell(csv, i)) THEN <<StrOf(DateCell(csv, i))>> ELSE <<>>)
         \o ClaimedKept(csv, i + 1)

\* C21: on the heuristic path a row whose amount cell is not a parseable
\* number, an empty cell included, is skipped and the document goes on;
\* every other row yields exactly one transaction; the transactions keep the
\* order of the rows; and the summary states the length of the list.
C21_UnparseableRowsSkipped ==
    (Done("parse_csv_file") /\ BothColumnsFound(arg)) =>
        /\ result.kind = "ok"
        /\ [i \in 1..Len(result.val.transactions) |-> result.val.transactions[i].date]
             = ClaimedKept(arg, 1)
        /\ result.val.summary.n = Len(result.val.transactions)

\* the cell of row i under the first column whose trimmed, lowercased name
\* holds a type keyword
TypeCell(csv, i) ==
    LET hits == {j \in 1..Len(csv.header) :
                    \E k \in TypeKeys : Contains(Lower(Strip(csv.header[j].name)), k)}
    IN  CellAt(csv, i, CHOOSE j \in hits : \A x \in hits : j <= x)

WithTypeColumn(csv) == BothColumnsFound(csv) /\ Detected[csv.header].type_col # <<>>

\* the row a transaction of the heuristic path was made from: its date is
\* the date cell of that row, which names the row
RowOf(csv, tx) == CHOOSE i \in 1..Len(csv.rows) : StrOf(DateCell(csv, i)) = tx.date

\* the type value of the row says expense, debit or debet, in any case
SaysExpense(cell) ==
    \E k \in {<<"e","x","p","e","n","s","e">>, <<"d","e","b","i","t">>, <<"d","e","b","e","t">>} :
        Contains(Lower(StrOf(cell)), k)

\* the absolute value of what the amount cell parses to
ClaimedAmount(cell) ==
    IF Parseable(cell) THEN Num(IF cell.v < 0 THEN -cell.v ELSE cell.v) ELSE NaN

\* C22: on the heuristic path with a type column a transaction is an expense
\* exactly when the type value of its row contains an expense/debit keyword,
\* and an income otherwise, whatever the sign of the amount; its amount is
\* the absolute value of the parsed amount.
C22_ClassifiedByTypeColumn ==
    (Done("parse_csv_file") /\ WithTypeColumn(arg)) =>
        /\ result.kind = "ok"
        /\ \A n \in 1..Len(result.val.transactions) :
              LET tx == result.val.transactions[n]
                  i  == RowOf(arg, tx)
              IN  /\ (tx.type = "expense") <=> SaysExpense(TypeCell(arg, i))
                  /\ (tx.type = "income") <=> ~SaysExpense(TypeCell(arg, i))
                  /\ tx.amount = ClaimedAmount(AmountCell(arg, i))

\* a row with a positive amount and the type value Debit came out an expense,
\* and a row with a negative amount came out with the amount made positive
C22_Witness ==
    /\ Done("parse_csv_file") /\ WithTypeColumn(arg) /\ result.kind = "ok"
    /\ \E n \in 1..Len(result.val.transactions) :
          LET tx == result.val.transactions[n]
          IN  /\ AmountCell(arg, RowOf(arg, tx)).v > 0
              /\ tx.type = "expense"
    /\ \E n \in 1..Len(result.val.transactions) :
          LET tx == result.val.transactions[n]
          IN  /\ AmountCell(arg, RowOf(arg, tx)).v < 0
              /\ tx.amount = Num(-AmountCell(arg, RowOf(arg, tx)).v)

\* the currency the amounts of an analysed result are expressed in: SEK once
\* converted, the currency of the document otherwise
AmountsIn(parsed) ==
    IF "converted_from" \in DOMAIN parsed THEN SEK
    ELSE Code(Get(parsed, "currency", "SEK"))

\* C23: every transaction row the upload flow has stored carries the
\* currency its amount is expressed in: SEK for the rows of a result that was
\* converted at Analyze.
C23_StoredCurrencyIsAmountCurrency ==
    \A i \in 1..Len(db.transactions) :
        db.transactions[i].currency
            = AmountsIn(savedFrom[db.transactions[i].document_id])

\* C24: a parsed result held in the session while a file is in the uploader
\* was produced from that file.
C24_ResultFromUploadedFile ==
    (session_state.parsed_result # PyNone /\ uploaded # PyNone) => parsedFrom = uploaded

\* the step was a save that succeeded: its run drew the banner
SaveSucceeded == "banner" \in rendered'

\* the step was a save that failed: its run drew the error of line 410
SaveFailed == "save_failed" \in rendered'

\* C25: the transactions of one analysis are committed at most once and Save
\* is offered only for a result that was not saved yet; a save that succeeds
\* clears the parsed result and takes the Save button away, a save that fails
\* leaves the parsed result and the button in place.
C25_SavedAtMostOnce ==
    /\ [](/\ savesOfResult <= 1
          /\ "save" \in rendered =>
                (savesOfResult = 0 /\ session_state.parsed_result # PyNone))
    /\ [][/\ SaveSucceeded =>
                (session_state'.parsed_result = PyNone /\ "save" \notin rendered')
          /\ SaveFailed =>
                (/\ session_state'.parsed_result = session_state.parsed_result
                 /\ session_state.parsed_result # PyNone
                 /\ "save" \in rendered')]_vars

\* a save failed after the document row was written, the result stayed, and
\* the second save of it succeeded
C25_Witness ==
    /\ "banner" \in rendered
    /\ session_state.parsed_result = PyNone
    /\ savesOfResult = 1
    /\ Len(db.documents) = 2
    /\ savedFrom[1] = savedFrom[2]
    /\ db.transactions # <<>>
    /\ \A i \in 1..Len(db.transactions) : db.transactions[i].document_id = 2

\* C26: the chat history is a strict alternation of user and ai entries
\* that starts with a user entry, every user entry followed by its ai entry.
C26_HistoryAlternates ==
    LET h == session_state.chat_history
    IN  /\ \A i \in 1..Len(h) : h[i].role = (IF i % 2 = 1 THEN "user" ELSE "ai")
        /\ Len(h) % 2 = 0

=============================================================================
